---------------------------- MODULE Spec2Model ----------------------------
(***************************************************************************)
(* Model of packages/3dom/src/api/material.ts: the Material class that     *)
(* defineMaterial() produces, its constructor (statement by statement),    *)
(* its read-only accessors, and the collaborators it calls: the injected   *)
(* ThreeDOMElement base constructor and ModelKernel.deserialize.           *)
(***************************************************************************)
EXTENDS Integers, Sequences, FiniteSets, TLC

\* ------------------------------------------------------------------ bounds
\* Number of distinct entity identities a snapshot may carry.
NumIds == 1
\* Number of distinct well-formed nested snapshot payloads.
NumSnap == 1

\* ------------------------------------------------------------------ values
\* Every JavaScript value of the model is a record of one shape:
\*   t  the type tag, s a string payload, n and q integer payloads.
Val(t, s, n, q) == [t |-> t, s |-> s, n |-> n, q |-> q]

Undefined == Val("undefined", "", 0, 0)
Null == Val("null", "", 0, 0)
Str(s) == Val("string", s, 0, 0)
Id(i) == Val("id", "", i, 0)
\* A nested serialized snapshot with payload n.
Snap(n) == Val("snapshot", "", n, 0)
\* A nested snapshot that lacks a required scalar.
Malformed == Val("snapshot", "malformed", 0, 0)
\* The ModelKernel passed to the constructor.
Kernel == Val("kernel", "ModelKernel", 0, 0)
\* A kernel object made by code outside the module.
ForgedKernel == Val("kernel", "forged", 0, 0)
\* What a call leaves behind when it throws instead of returning.
Error == Val("error", "", 0, 0)
\* No value yet (a ghost marker, not a JavaScript value).
None == Val("none", "", 0, 0)

PbrKind == "pbr-metallic-roughness"
TexKind == "texture-info"

\* The element kernel.deserialize(kind, snap) returns on its q-th call of a
\* construction: a fresh nested representation of that snapshot.
Element(kind, snap, q) == Val("element", kind, snap.n, q)

\* x != null of JavaScript: false for null and for undefined.
IsNullish(v) == v = Null \/ v = Undefined

TextureSlots == {"normalTexture", "occlusionTexture", "emissiveTexture"}
NestedSlots == {"pbrMetallicRoughness"} \cup TextureSlots
\* The public accessors of the class.
Accessors == {"name"} \cup NestedSlots
\* The symbol-keyed private slots of the class.
Symbols == {"kernel", "name"} \cup NestedSlots

\* ------------------------------------------------------------------ inputs
Names == {Undefined, Null, Str(""), Str("mat")}
Identities == {Undefined} \cup {Id(i) : i \in 1..NumIds}
PbrSnapshots == {Undefined} \cup {Snap(n) : n \in 1..NumSnap}
TextureSnapshots == {Undefined, Null, Malformed} \cup {Snap(n) : n \in 1..NumSnap}

\* The values a snapshot may hold in a nested field.
SnapshotsFor(slot) ==
  IF slot = "pbrMetallicRoughness" THEN PbrSnapshots ELSE TextureSnapshots

\* A snapshot is plain immutable data supplied by the host: the model draws
\* each of its fields when the code first reads it, and None marks a field
\* that has not been read yet.
NoSnapshot ==
  [id |-> None, name |-> None, pbrMetallicRoughness |-> None,
   normalTexture |-> None, occlusionTexture |-> None, emissiveTexture |-> None]

\* The object before super() has returned: nothing is defined on it.
Unallocated ==
  [base |-> Undefined, kernel |-> Undefined, name |-> Undefined,
   pbrMetallicRoughness |-> Undefined, normalTexture |-> Undefined,
   occlusionTexture |-> Undefined, emissiveTexture |-> Undefined]

VARIABLES
  recognized,   \* the kinds the kernel has a constructor for
  cache,        \* the kernel's identity cache: entity id -> instance handle
  heap,         \* the instances returned to callers: handle -> object
  pc,           \* "idle", "ctor", "thrown", "constructed", "resync", and how
                \* the call ended: "returned", "failed", "resynced"
  ip,           \* index of the next constructor statement
  serialized,   \* the snapshot being deserialized
  this,         \* the object under construction
  calls,        \* kernel.deserialize calls of the running construction
  superArgs,    \* the arguments the base constructor received
  returned,     \* what deserialize('material', ..) hands its caller
  op,           \* the kind of the last operation of outside code
  knownKeys,    \* property keys outside code has obtained by reflection
  leaked        \* values outside code has read through such keys

vars == <<recognized, cache, heap, pc, ip, serialized, this, calls,
          superArgs, returned, op, knownKeys, leaked>>

Handles == DOMAIN heap

Handle(h) == Val("handle", "", h, 0)

Init ==
  /\ recognized \in SUBSET {PbrKind, TexKind}
  /\ cache = <<>>
  /\ heap = <<>>
  /\ pc = "idle"
  /\ ip = 1
  /\ serialized = NoSnapshot
  /\ this = Unallocated
  /\ calls = <<>>
  /\ superArgs = <<>>
  /\ returned = None
  /\ op = "none"
  /\ knownKeys = {}
  /\ leaked = {}

\* ------------------------------------------------------------- collaborators
\* ThreeDOMElement's constructor: establishes the identity, and fails on a
\* snapshot without one.
BaseThrows(args) == args[2].id = Undefined

\* ModelKernel.deserialize(kind, snap) as the q-th call of a construction:
\* an unrecognized kind or a malformed (or missing) snapshot is an error.
KernelDeserialize(kind, snap, q) ==
  IF kind \notin recognized \/ snap.t # "snapshot" \/ snap = Malformed
  THEN Error
  ELSE Element(kind, snap, q)

\* ---------------------------------------------------------------- Material
\* Mutant: the occlusion and emissive blocks in the other order.
ConstructorBodySwapped ==
  <<"super", "kernel", "name", "pbrMetallicRoughness", "normalTexture",
    "emissiveTexture", "occlusionTexture">>

\* Mutant: the kernel binding assigned ahead of super().
ConstructorBodyLateSuper ==
  <<"kernel", "super", "name", "pbrMetallicRoughness", "normalTexture",
    "occlusionTexture", "emissiveTexture">>

\* The constructor's statements in source order.
ConstructorBody ==
  <<"super", "kernel", "name", "pbrMetallicRoughness", "normalTexture",
    "occlusionTexture", "emissiveTexture">>

\* super(kernel, serialized)
SuperArgs(kernel, snapshot) == <<kernel, snapshot>>

\* The class field initializers, which run as super() returns.
FieldInitializers(obj) ==
  [obj EXCEPT !.normalTexture = Null, !.occlusionTexture = Null,
              !.emissiveTexture = Null]

\* Mutant: an absent name is replaced by an empty placeholder string.
CopyNamePlaceholder(obj, snapshot) ==
  [obj EXCEPT !.name = IF IsNullish(snapshot.name) THEN Str("") ELSE snapshot.name]

\* if (serialized.name != null) { this[$name] = serialized.name; }
CopyName(obj, snapshot) ==
  IF ~IsNullish(snapshot.name) THEN [obj EXCEPT !.name = snapshot.name] ELSE obj

\* Mutant: the pbrMetallicRoughness call is null-guarded like the textures.
GuardedAll(slot) == slot \in NestedSlots

\* Whether the statement for a nested slot sits inside if (x != null) {..}.
Guarded(slot) == slot \in TextureSlots

\* The kind discriminator each nested slot is deserialized with.
KindOf(slot) == IF slot = "pbrMetallicRoughness" THEN PbrKind ELSE TexKind

\* Mutant: the occlusion block tests and passes normalTexture.
ArgOfPasted(slot, snapshot) ==
  IF slot = "occlusionTexture" THEN snapshot["normalTexture"] ELSE snapshot[slot]

\* The snapshot field passed to deserialize for a nested slot.
ArgOf(slot, snapshot) == snapshot[slot]

\* The private slot the result is stored in.
TargetOf(slot) == slot

\* Mutant: a failed call is swallowed and the constructor carries on.
AbortsNever(result) == FALSE

\* Whether a call's outcome aborts the constructor (nothing catches it).
Aborts(result) == result = Error

\* A getter: return this[$field]; an undefined slot reads as undefined.
Getter(obj, field) == obj[field]

\* Mutant: a getter resolves its slot through the kernel when it is read.
AccessorKernelCallsLazy(obj, field) ==
  <<[for |-> field, kind |-> TexKind, snap |-> None, result |-> obj[field]]>>

\* The kernel.deserialize calls a getter makes: none.
AccessorKernelCalls(obj, field) == <<>>

\* Mutant: the accessor has a setter that writes the slot.
SetOutcomeWritable(obj, field, v) == [obj EXCEPT ![field] = v]

\* obj after outside code evaluates obj.field = v: the accessors have no
\* setter, so nothing is written.
SetOutcome(obj, field, v) == obj

\* The class has no method that writes a slot after construction: a cached
\* instance handed a newer snapshot stays as constructed.
Resynchronize(obj, snapshot) == obj

\* The instance's own property keys: one symbol per slot that was assigned.
OwnKeys(obj) == {k \in Symbols : obj[k] # Undefined}

\* ------------------------------------------------------------------ actions
\* kernel.deserialize('material', S) is called by the host with a snapshot
\* whose identity is id: a cached identity is re-synchronized, any other is
\* constructed.
Deserialize(id) ==
  /\ pc = "idle"
  /\ serialized' = [NoSnapshot EXCEPT !.id = id]
  /\ op' = "deserialize"
  /\ pc' = IF id # Undefined /\ id.n \in DOMAIN cache THEN "resync" ELSE "ctor"
  /\ UNCHANGED <<recognized, cache, heap, ip, this, calls, superArgs,
                 returned, knownKeys, leaked>>

Throw == pc' = "thrown" /\ ip' = ip

Advance == /\ ip' = ip + 1
           /\ pc' = IF ip = Len(ConstructorBody) THEN "constructed" ELSE "ctor"

StmtSuper ==
  /\ ConstructorBody[ip] = "super"
  /\ superArgs' = SuperArgs(Kernel, serialized)
  /\ IF BaseThrows(superArgs')
     THEN Throw /\ this' = this
     ELSE Advance /\ this' = FieldInitializers([this EXCEPT !.base = superArgs'[2].id])
  /\ UNCHANGED <<calls, serialized>>

StmtKernel ==
  /\ ConstructorBody[ip] = "kernel"
  /\ this' = [this EXCEPT !.kernel = Kernel]
  /\ Advance
  /\ UNCHANGED <<calls, superArgs, serialized>>

StmtName ==
  /\ ConstructorBody[ip] = "name"
  /\ \E n \in Names : serialized' = [serialized EXCEPT !.name = n]
  /\ this' = CopyName(this, serialized')
  /\ Advance
  /\ UNCHANGED <<calls, superArgs>>

StmtNested ==
  /\ ConstructorBody[ip] \in NestedSlots
  /\ \E v \in SnapshotsFor(ConstructorBody[ip]) :
       serialized' = [serialized EXCEPT ![ConstructorBody[ip]] = v]
  /\ LET slot == ConstructorBody[ip]
         arg == ArgOf(slot, serialized')
         result == KernelDeserialize(KindOf(slot), arg, Len(calls) + 1)
     IN IF Guarded(slot) /\ IsNullish(arg)
        THEN Advance /\ UNCHANGED <<this, calls>>
        ELSE /\ calls' = Append(calls, [for |-> slot, kind |-> KindOf(slot),
                                         snap |-> arg, result |-> result])
             /\ IF Aborts(result)
                THEN Throw /\ this' = this
                ELSE Advance /\ this' = [this EXCEPT ![TargetOf(slot)] = result]
  /\ UNCHANGED superArgs

\* One statement of the running constructor.
Step ==
  /\ pc = "ctor"
  /\ StmtSuper \/ StmtKernel \/ StmtName \/ StmtNested
  /\ UNCHANGED <<recognized, cache, heap, returned, op, knownKeys,
                 leaked>>

\* The constructor threw: the exception leaves new Material(..) and reaches
\* the caller, who gets no object; the kernel registers nothing.
Propagate ==
  /\ pc = "thrown"
  /\ returned' = Error
  /\ pc' = "failed"
  /\ UNCHANGED <<recognized, cache, heap, ip, serialized, this, calls,
                 superArgs, op, knownKeys, leaked>>

\* The constructor returned: the kernel registers the instance and returns it.
Return ==
  /\ pc = "constructed"
  /\ LET h == Cardinality(Handles) + 1
     IN /\ heap' = heap @@ (h :> this)
        /\ cache' = cache @@ (this.base.n :> h)
        /\ returned' = Handle(h)
  /\ pc' = "returned"
  /\ UNCHANGED <<recognized, ip, serialized, this, calls, superArgs, op,
                 knownKeys, leaked>>

\* A snapshot for a cached identity: the kernel reads the snapshot's fields
\* and returns the cached instance.
Resync ==
  /\ pc = "resync"
  /\ \E n \in Names : serialized' = [serialized EXCEPT !.name = n]
  /\ LET h == cache[serialized.id.n]
     IN /\ heap' = [heap EXCEPT ![h] = Resynchronize(@, serialized')]
        /\ returned' = Handle(h)
  /\ pc' = "resynced"
  /\ UNCHANGED <<recognized, cache, ip, this, calls, superArgs, op,
                 knownKeys, leaked>>

\* The caller has its result; the call's locals are gone.
Finish ==
  /\ pc \in {"returned", "failed", "resynced"}
  /\ pc' = "idle"
  /\ ip' = 1
  /\ serialized' = NoSnapshot
  /\ this' = Unallocated
  /\ calls' = <<>>
  /\ superArgs' = <<>>
  /\ returned' = None
  /\ UNCHANGED <<recognized, cache, heap, op, knownKeys, leaked>>

\* Outside code reads an accessor of an instance it holds.
Get(h, field) ==
  /\ pc = "idle"
  /\ op' = "get"
  /\ calls' = calls \o AccessorKernelCalls(heap[h], field)
  /\ UNCHANGED <<recognized, cache, heap, pc, ip, serialized, this,
                 superArgs, returned, knownKeys, leaked>>

\* Outside code attempts instance.field = v.
Set(h, field, v) ==
  /\ pc = "idle"
  /\ heap' = [heap EXCEPT ![h] = SetOutcome(@, field, v)]
  /\ op' = "set"
  /\ UNCHANGED <<recognized, cache, pc, ip, serialized, this, calls,
                 superArgs, returned, knownKeys, leaked>>

\* Outside code calls Object.getOwnPropertySymbols(instance).
OwnPropertySymbols(h) ==
  /\ pc = "idle"
  /\ knownKeys' = knownKeys \cup OwnKeys(heap[h])
  /\ op' = "ownSymbols"
  /\ UNCHANGED <<recognized, cache, heap, pc, ip, serialized, this,
                 calls, superArgs, returned, leaked>>

\* Outside code looks up a string-named property, or lists the string keys:
\* the slots are not string-keyed, so neither yields a key or a slot.
StringLookup(h, s) ==
  /\ pc = "idle"
  /\ op' = "stringGet"
  /\ leaked' = leaked \cup (IF s \in Accessors THEN {Getter(heap[h], s)} ELSE {})
  /\ UNCHANGED <<recognized, cache, heap, pc, ip, serialized, this,
                 calls, superArgs, returned, knownKeys>>

\* Outside code reads instance[k] with a symbol it obtained.
SymbolGet(h, k) ==
  /\ pc = "idle"
  /\ k \in knownKeys
  /\ leaked' = leaked \cup {heap[h][k]}
  /\ op' = "symbolGet"
  /\ UNCHANGED <<recognized, cache, heap, pc, ip, serialized, this,
                 calls, superArgs, returned, knownKeys>>

\* Outside code writes instance[k] = v with a symbol it obtained.
SymbolSet(h, k, v) ==
  /\ pc = "idle"
  /\ k \in knownKeys
  /\ heap' = [heap EXCEPT ![h][k] = v]
  /\ op' = "symbolSet"
  /\ UNCHANGED <<recognized, cache, pc, ip, serialized, this, calls,
                 superArgs, returned, knownKeys, leaked>>

Construction ==
  \/ \E id \in Identities : Deserialize(id)
  \/ Step
  \/ Propagate
  \/ Return
  \/ Resync
  \/ Finish

PublicUse ==
  \/ \E h \in Handles, f \in Accessors : Get(h, f)
  \/ \E h \in Handles, f \in Accessors : Set(h, f, Null)

Reflection ==
  \/ \E h \in Handles : OwnPropertySymbols(h)
  \/ \E h \in Handles, s \in {"kernel", "$kernel"} : StringLookup(h, s)
  \/ \E h \in Handles, k \in Symbols : SymbolGet(h, k)
  \/ \E h \in Handles : SymbolSet(h, "kernel", ForgedKernel)

Next == Construction \/ PublicUse

NextReflect == Construction \/ PublicUse \/ Reflection

\* The kernel, the constructor and the public interface.
Spec == Init /\ [][Next]_vars

\* The same, with outside code that also uses reflection on the instance.
SpecReflect == Init /\ [][NextReflect]_vars


\* ------------------------------------------------------------------ claims
\* The instance the call that just ended handed to its caller.
Material == heap[returned.n]

\* What a name accessor must report for a snapshot's name.
NameOf(S) == IF IsNullish(S.name) THEN Undefined ELSE S.name

\* C1: constructing a Material never fails on account of the name, and the
\* constructed material's name accessor reports the snapshot's name when it is
\* present and undefined (not a placeholder) when it is omitted or null.
C1_NameCopiedOrAbsent ==
  /\ pc = "returned" => Getter(Material, "name") = NameOf(serialized)
  /\ pc \in {"thrown", "failed"} => ConstructorBody[ip] # "name"

C1_Witness ==
  /\ pc = "returned"
  /\ serialized.name = Undefined
  /\ Getter(Material, "name") = Undefined

\* The call made on behalf of nested slot f, if any, returned r.
ReturnedFor(f, kind, snap, r) ==
  \E i \in 1..Len(calls) :
    /\ calls[i].for = f
    /\ calls[i].kind = kind
    /\ calls[i].snap = snap
    /\ calls[i].result = r

\* C2: each nested accessor of a constructed material reads back exactly what
\* the kernel returned for that field's own snapshot with that field's kind;
\* a null or absent texture reads back null; no accessor holds the result of
\* another field's call or a raw snapshot.
C2_NestedReadBack ==
  pc = "returned" =>
    /\ ReturnedFor("pbrMetallicRoughness", PbrKind,
                   serialized.pbrMetallicRoughness,
                   Getter(Material, "pbrMetallicRoughness"))
    /\ \A f \in TextureSlots :
         IF IsNullish(serialized[f])
         THEN Getter(Material, f) = Null
         ELSE ReturnedFor(f, TexKind, serialized[f], Getter(Material, f))
    /\ \A f \in NestedSlots :
         /\ Getter(Material, f).t # "snapshot"
         /\ \A i \in 1..Len(calls) :
              calls[i].for # f => Getter(Material, f) # calls[i].result

C2_Witness ==
  /\ pc = "returned"
  /\ serialized.normalTexture = Null
  /\ serialized.occlusionTexture.t = "snapshot"
  /\ serialized.emissiveTexture.t = "snapshot"
  /\ Getter(Material, "normalTexture") = Null
  /\ Getter(Material, "occlusionTexture").t = "element"
  /\ Getter(Material, "emissiveTexture").t = "element"

\* The calls a snapshot determines: pbr first, then each non-null texture.
TextureCall(S, f) ==
  IF IsNullish(S[f]) THEN <<>> ELSE <<[kind |-> TexKind, snap |-> S[f]]>>

ExpectedCalls(S) ==
  <<[kind |-> PbrKind, snap |-> S.pbrMetallicRoughness]>>
    \o TextureCall(S, "normalTexture")
    \o TextureCall(S, "occlusionTexture")
    \o TextureCall(S, "emissiveTexture")

CallsMade == [i \in 1..Len(calls) |-> [kind |-> calls[i].kind, snap |-> calls[i].snap]]

\* The position of a nested field in the order the claim gives.
Rank(f) ==
  CASE f = "pbrMetallicRoughness" -> 1
    [] f = "normalTexture" -> 2
    [] f = "occlusionTexture" -> 3
    [] OTHER -> 4

\* C3: the deserialize calls of a construction are those the snapshot
\* determines, in the order pbrMetallicRoughness, normalTexture,
\* occlusionTexture, emissiveTexture; a null or absent texture causes no call
\* and no error.
C3_CallSequence ==
  /\ pc \in {"constructed", "returned"} => CallsMade = ExpectedCalls(serialized)
  /\ pc \in {"ctor", "thrown", "failed"} =>
       /\ \A i \in 1..Len(calls) :
            /\ calls[i].kind = (IF Rank(calls[i].for) = 1 THEN PbrKind ELSE TexKind)
            /\ calls[i].snap = serialized[calls[i].for]
            /\ calls[i].for \in TextureSlots => ~IsNullish(calls[i].snap)
       /\ \A i, j \in 1..Len(calls) :
            i < j => Rank(calls[i].for) < Rank(calls[j].for)
       /\ Len(calls) > 0 => calls[1].for = "pbrMetallicRoughness"

C3_Witness ==
  /\ pc = "returned"
  /\ serialized.normalTexture = Undefined
  /\ Len(calls) = 3
  /\ calls[2].for = "occlusionTexture"
  /\ calls[3].for = "emissiveTexture"

\* C4: base construction with (kernel, snapshot) is the constructor's first
\* action: until it has completed nothing is populated and no deserialize call
\* is made, and when it fails nothing ever is.
C4_BaseFirst ==
  /\ (pc \in {"ctor", "thrown", "constructed", "failed"} /\ this.base = Undefined) =>
       this = Unallocated /\ calls = <<>>
  /\ ((pc = "ctor" /\ ip > 1) \/ pc \in {"thrown", "constructed", "returned", "failed"}) =>
       superArgs = <<Kernel, [NoSnapshot EXCEPT !.id = serialized.id]>>

C4_Witness ==
  /\ pc = "failed"
  /\ superArgs # <<>>
  /\ this = Unallocated
  /\ calls = <<>>

\* C5: reading or assigning through the public accessors never changes an
\* instance; the slots of an instance are written by its construction only.
C5_ReadOnly ==
  [][/\ op' \in {"get", "set"} => heap' = heap
     /\ heap' # heap => pc = "constructed"]_vars

C5_Witness ==
  /\ op = "set"
  /\ \E h \in Handles : Getter(heap[h], "name") = Undefined

\* C6: outside code holding an instance cannot obtain a slot key, read the
\* kernel binding or replace it, by property access, string lookup or
\* reflection over the instance's own keys.
C6_SlotsUnreachable ==
  /\ knownKeys = {}
  /\ Kernel \notin leaked
  /\ \A h \in Handles : heap[h].kernel = Kernel

\* C7: a deserialize error at any of the calls ends the construction there,
\* reaches the caller, and no instance of it (half-constructed or not) is
\* returned or held by anyone.
C7_ErrorSurfaces ==
  /\ \A i \in 1..Len(calls) :
       calls[i].result = Error => pc \in {"thrown", "failed"} /\ i = Len(calls)
  /\ pc = "failed" =>
       /\ returned = Error
       /\ \A h \in Handles : heap[h] # this
  /\ \A h \in Handles :
       /\ heap[h].kernel = Kernel
       /\ \A f \in NestedSlots : heap[h][f] # Error

C7_Witness ==
  /\ pc = "failed"
  /\ Len(calls) = 4
  /\ calls[4].result = Error
  /\ this.occlusionTexture.t = "element"
  /\ returned = Error

C9_ResyncUpdatesInPlace ==
  pc = "resynced" =>
    /\ returned = Handle(cache[serialized.id.n])
    /\ Getter(Material, "name") = NameOf(serialized)

\* C10: nested structures are resolved by the constructor: every
\* kernel.deserialize call is made by a constructor statement, every present
\* nested field is resolved when the instance is returned, and an accessor
\* read makes no call and changes no instance.
C10_EagerResolution ==
  /\ [](pc = "returned" =>
         \A f \in NestedSlots :
           ~IsNullish(serialized[f]) => Getter(Material, f).t = "element")
  /\ [][/\ Len(calls') > Len(calls) => pc = "ctor"
        /\ op' = "get" => calls' = calls /\ heap' = heap]_vars

C10_Witness ==
  /\ op = "get"
  /\ \E h \in Handles : Getter(heap[h], "normalTexture").t = "element"

=============================================================================
